---- MODULE Spec2Model ----
(***************************************************************************)
(* A model of the dep-graph crate: the dependency graph engine of          *)
(* src/graph.rs (task stack, node storage, interning tables) and the       *)
(* tracked-cell locking discipline of src/cell.rs.                         *)
(*                                                                         *)
(* A task body is user code: it runs between the Begin... step that starts *)
(* the task and the End... step that finishes it, and in between it may    *)
(* call read, start nested tasks, and (for cell tasks) create and borrow   *)
(* cells.  A panic is modelled by aborted' = TRUE, after which nothing     *)
(* happens any more.                                                       *)
(***************************************************************************)
EXTENDS Integers, Sequences, FiniteSets, TLC

\* ---- bounds of the model ------------------------------------------------
MaxTasks  == 3   \* task and ignore scopes started in one run
MaxDepth  == 2   \* nesting depth of scopes
MaxCells  == 1   \* cells created in one run
MaxReads  == 3   \* explicit calls of DepGraph::read in one run
MaxLocked == 2   \* length of one task's locked list
NumNames  == 1   \* distinct node names

Names == 1..NumNames

\* Option::None for an optional name, and "no index" in the bookkeeping
None == 0
NoIndex == -2

\* DepNodeIndex::dummy(): index usize::MAX, written as its two's complement
\* reading -1
dummy == -1

VARIABLES
  enabled,          \* DepGraphData.enabled
  node_data,        \* DepGraphNodes.node_data; index i is node_data[i+1]
  predecessors,     \* DepGraphNodes.predecessors, the interning set
  task_stack,       \* DepGraphNodes.task_stack
  anon_node_map,    \* DepGraphNodes.anon_node_map
  named_node_map,   \* DepGraphNodes.named_node_map
  cells,            \* the DepCellData created so far: their State
  calls,            \* the active with_task / with_anon_task / with_ignore /
                    \* cell_task invocations, outermost first
  known,            \* the indices with_anon_task has returned to the caller
  started,          \* number of scopes started so far
  nreads,           \* number of explicit read calls so far
  aborted,          \* a panic has happened
  hist,             \* per cell, for the statements below: the invocation
                    \* that created it, the invocation that last locked it,
                    \* the node of the task that last wrote it
  last              \* the operation of the last step and what it saw

vars == <<enabled, node_data, predecessors, task_stack, anon_node_map,
          named_node_map, cells, calls, known, started, nreads, aborted,
          hist, last>>

graphVars == <<node_data, predecessors, task_stack, anon_node_map,
               named_node_map>>

Range(s) == {s[i] : i \in 1..Len(s)}

EmptyMap == [x \in {} |-> NoIndex]

\* ---- State of a cell (cell.rs, enum State) -------------------------------
Unlocked(n)    == [tag |-> "Unlocked",    val |-> n]
ReadLocked(t)  == [tag |-> "ReadLocked",  val |-> t]
WriteLocked(t) == [tag |-> "WriteLocked", val |-> t]

\* TaskId(0), the identity cell_task gives every task
TaskId0 == 0

\* ---- DepGraphNodes (graph.rs) --------------------------------------------

\* push_task that pushes nothing
push_task_skipped(stack) == stack

\* DepGraphNodes::push_task
push_task(stack) ==
  Append(stack, [predecessors |-> <<>>, predecessor_set |-> {}])

\* read_entry without the membership test
read_entry_no_dedup(top, v) ==
  [predecessors    |-> Append(top.predecessors, v),
   predecessor_set |-> top.predecessor_set \cup {v}]

\* the body of DepGraphNodes::read on the top entry:
\* if top.predecessor_set.insert(v) { top.predecessors.push(v) }
read_entry(top, v) ==
  IF v \in top.predecessor_set
  THEN top
  ELSE [predecessors    |-> Append(top.predecessors, v),
        predecessor_set |-> top.predecessor_set \cup {v}]

\* a read that is attributed to the outermost frame (first_mut for last_mut)
nodes_read_outermost(stack, v) ==
  IF stack = <<>>
  THEN stack
  ELSE [stack EXCEPT ![1] = read_entry(@, v)]

\* a read that is attributed to every active frame
nodes_read_all_frames(stack, v) ==
  [i \in 1..Len(stack) |-> read_entry(stack[i], v)]

\* DepGraphNodes::read: only task_stack.last_mut() is touched
nodes_read(stack, v) ==
  IF stack = <<>>
  THEN stack
  ELSE [stack EXCEPT ![Len(stack)] = read_entry(@, v)]

\* pop_task without the assertion on the previous entry
name_taken_unchecked(map, n) == FALSE

\* assert!(prev.is_none(), "created named node {:?} twice", n)
name_taken(map, n) == n \in DOMAIN map

\* self.anon_node_map.get(&predecessors)
anon_lookup(map, preds) ==
  IF preds \in DOMAIN map THEN map[preds] ELSE NoIndex

\* HashMap::insert
map_insert(map, k, v) ==
  [x \in DOMAIN map \cup {k} |-> IF x = k THEN v ELSE map[x]]

\* a push that puts the new node in front of the others
push_node_front(nodes, d) == <<d>> \o nodes

\* self.node_data.push(DepNodeData { opt_name, predecessors })
push_node(nodes, d) == Append(nodes, d)

\* the index taken after the push instead of before it
next_index_after_push(nodes) == Len(nodes) + 1

\* DepNodeIndex { index: self.node_data.len() }
next_index(nodes) == Len(nodes)

\* DepGraphNodes::pop_task, as the record of what it leaves behind and the
\* index it returns.  The pieces are in the order of the code, so that a
\* panic keeps what was done before it.
pop_task(opt_name) ==
  IF task_stack = <<>>
  THEN \* self.task_stack.pop().unwrap() panics
       [abort |-> TRUE, index |-> NoIndex, node_data |-> node_data,
        predecessors |-> predecessors, task_stack |-> task_stack,
        named_node_map |-> named_node_map]
  ELSE
  LET entry    == task_stack[Len(task_stack)]
      stack1   == SubSeq(task_stack, 1, Len(task_stack) - 1)
      preds    == entry.predecessors
      interned == predecessors \cup {preds}
      found    == IF opt_name = None
                  THEN anon_lookup(anon_node_map, preds)
                  ELSE NoIndex
      index    == next_index(node_data)
  IN IF found # NoIndex
     THEN [abort |-> FALSE, index |-> found, node_data |-> node_data,
           predecessors |-> interned, task_stack |-> stack1,
           named_node_map |-> named_node_map]
     ELSE IF opt_name # None /\ name_taken(named_node_map, opt_name)
     THEN [abort |-> TRUE, index |-> NoIndex, node_data |-> node_data,
           predecessors |-> interned, task_stack |-> stack1,
           named_node_map |-> map_insert(named_node_map, opt_name, index)]
     ELSE [abort |-> FALSE, index |-> index,
           node_data |-> push_node(node_data,
                                   [opt_name |-> opt_name,
                                    predecessors |-> preds]),
           predecessors |-> interned, task_stack |-> stack1,
           named_node_map |-> IF opt_name # None
                              THEN map_insert(named_node_map, opt_name, index)
                              ELSE named_node_map]

\* ---- Task (cell.rs) -------------------------------------------------------

\* borrow_mut that lets a writer in over a read lock
borrow_mut_conflict_write_only(st) == st.tag = "WriteLocked"

\* borrow_mut: any lock on the cell is a conflict
borrow_mut_conflict(st) == st.tag # "Unlocked"

\* borrow that treats every lock as a conflict
borrow_conflict_any_lock(st, tid) == st.tag # "Unlocked"

\* borrow: a write lock, or a read lock of another task id, is a conflict
borrow_conflict(st, tid) ==
  \/ st.tag = "WriteLocked"
  \/ st.tag = "ReadLocked" /\ st.val # tid

\* release_locks that stamps the task id where the node belongs
release_locks_stamp_task_id(cs, locked, tid, node) ==
  [abort |-> FALSE,
   cells |-> [c \in DOMAIN cs |->
                IF c \in Range(locked) /\ cs[c].tag = "WriteLocked"
                THEN Unlocked(tid)
                ELSE cs[c]]]

\* release_locks that unlocks the read-locked cells as well
RECURSIVE release_locks_unlock_reads(_, _, _, _)
release_locks_unlock_reads(cs, locked, tid, node) ==
  IF locked = <<>>
  THEN [abort |-> FALSE, cells |-> cs]
  ELSE LET c  == Head(locked)
           st == cs[c]
       IN IF st.tag = "Unlocked"
          THEN [abort |-> TRUE, cells |-> cs]
          ELSE IF st.val # tid
          THEN [abort |-> TRUE, cells |-> cs]
          ELSE release_locks_unlock_reads([cs EXCEPT ![c] = Unlocked(node)],
                                          Tail(locked), tid, node)

\* Task::release_locks: the loop over self.locked, in order
RECURSIVE release_locks(_, _, _, _)
release_locks(cs, locked, tid, node) ==
  IF locked = <<>>
  THEN [abort |-> FALSE, cells |-> cs]
  ELSE LET c  == Head(locked)
           st == cs[c]
       IN IF st.tag = "Unlocked"
          THEN [abort |-> TRUE, cells |-> cs]           \* unreachable!()
          ELSE IF st.val # tid
          THEN [abort |-> TRUE, cells |-> cs]           \* assert_eq! fails
          ELSE IF st.tag = "ReadLocked"
          THEN release_locks(cs, Tail(locked), tid, node)
          ELSE release_locks([cs EXCEPT ![c] = Unlocked(node)],
                             Tail(locked), tid, node)

\* ---- the running invocations ---------------------------------------------

\* One entry of calls.  kind is "task", "anon", "ignore" or "cell"; key is the
\* name given to with_task; task_id and locked are the fields of Task (used
\* by cell tasks only).  inv numbers the invocation, need collects the
\* writer nodes of the foreign cells the task got a view of while its own
\* frame was innermost, reads the indices read while the invocation's frame
\* was innermost.
NewCall(kind, key) ==
  [kind |-> kind, key |-> key, task_id |-> TaskId0, locked |-> <<>>,
   inv |-> started + 1, need |-> {}, reads |-> <<>>]

Top == calls[Len(calls)]

Popped(s) == SubSeq(s, 1, Len(s) - 1)

\* The Task a body can use: that of the innermost cell_task, reachable from
\* its own body and from the closures it hands to with_ignore (task functions
\* are fn items and capture nothing).
ActingTask ==
  LET cand == {i \in 1..Len(calls) :
                 /\ calls[i].kind = "cell"
                 /\ \A j \in (i+1)..Len(calls) : calls[j].kind = "ignore"}
  IN IF cand = {} THEN 0 ELSE CHOOSE i \in cand : TRUE

NoLast ==
  [op |-> "init", arg |-> NoIndex, node |-> NoIndex, inv |-> 0,
   pre |-> Unlocked(NoIndex), preholder |-> 0, locked |-> <<>>,
   need |-> {}, reads |-> <<>>]

\* a read that reaches DepGraphNodes::read is logged with the innermost scope
LogRead(cs, v) ==
  IF enabled /\ cs # <<>>
  THEN [cs EXCEPT ![Len(cs)].reads = Append(@, v)]
  ELSE cs

CanBegin ==
  /\ ~aborted
  /\ started < MaxTasks
  /\ Len(calls) < MaxDepth

Begin(kind, key) ==
  /\ CanBegin
  /\ task_stack' = IF enabled THEN push_task(task_stack) ELSE task_stack
  /\ calls' = Append(calls, NewCall(kind, key))
  /\ started' = started + 1
  /\ last' = [NoLast EXCEPT !.op = "begin_" \o kind, !.arg = key,
                            !.inv = started + 1]
  /\ UNCHANGED <<enabled, node_data, predecessors, anon_node_map,
                 named_node_map, cells, known, nreads, aborted, hist>>

\* DepGraph::with_task, up to the call of the task function
BeginTask(key) == Begin("task", key)

\* DepGraph::with_anon_task, up to the call of the task function
BeginAnonTask == Begin("anon", None)

\* DepGraph::with_ignore, up to the call of op
BeginIgnore == Begin("ignore", None)

\* DepGraph::cell_task, up to the call of user_task_fn
BeginCellTask == Begin("cell", None)

\* DepGraph::pop_task without the test of enabled
graph_pop_task_unguarded(opt_name) == pop_task(opt_name)

\* the graph after self.pop_task(name) of DepGraph (dummy when disabled)
graph_pop_task(opt_name) ==
  IF enabled
  THEN pop_task(opt_name)
  ELSE [abort |-> FALSE, index |-> dummy, node_data |-> node_data,
        predecessors |-> predecessors, task_stack |-> task_stack,
        named_node_map |-> named_node_map]

SetGraph(r) ==
  /\ node_data' = r.node_data
  /\ predecessors' = r.predecessors
  /\ task_stack' = r.task_stack
  /\ named_node_map' = r.named_node_map
  /\ UNCHANGED anon_node_map

End(kind, r) ==
  /\ SetGraph(r)
  /\ calls' = Popped(calls)
  /\ aborted' = r.abort
  /\ last' = [NoLast EXCEPT !.op = "end_" \o kind, !.arg = Top.key,
                            !.node = r.index, !.inv = Top.inv,
                            !.locked = Top.locked, !.need = Top.need,
                            !.reads = Top.reads]

\* DepGraph::with_task, from the return of the task function
EndTask ==
  /\ ~aborted /\ calls # <<>> /\ Top.kind = "task"
  /\ End("task", graph_pop_task(Top.key))
  /\ UNCHANGED <<enabled, cells, known, started, nreads, hist>>

\* DepGraph::with_anon_task, from the return of the task function; the index
\* goes back to the caller
EndAnonTask ==
  /\ ~aborted /\ calls # <<>> /\ Top.kind = "anon"
  /\ LET r == graph_pop_task(None)
     IN /\ End("anon", r)
        /\ known' = IF r.abort THEN known ELSE known \cup {r.index}
  /\ UNCHANGED <<enabled, cells, started, nreads, hist>>

\* DepGraph::with_ignore, from the return of op: pop_task(None), result dropped
EndIgnore ==
  /\ ~aborted /\ calls # <<>> /\ Top.kind = "ignore"
  /\ End("ignore", IF enabled THEN pop_task(None)
                   ELSE [graph_pop_task(None) EXCEPT !.index = NoIndex])
  /\ UNCHANGED <<enabled, cells, known, started, nreads, hist>>

\* DepGraph::cell_task, from the return of user_task_fn:
\* let node = self.pop_task(None); task.release_locks(node)
EndCellTask ==
  /\ ~aborted /\ calls # <<>> /\ Top.kind = "cell"
  /\ LET r   == graph_pop_task(None)
         rel == release_locks(cells, Top.locked, Top.task_id, r.index)
     IN IF r.abort
        THEN /\ End("cell", r)
             /\ UNCHANGED <<cells, hist>>
        ELSE /\ End("cell", [r EXCEPT !.abort = rel.abort])
             /\ cells' = rel.cells
             /\ hist' = [c \in DOMAIN hist |->
                           IF cells[c].tag = "WriteLocked"
                              /\ rel.cells[c].tag = "Unlocked"
                           THEN [hist[c] EXCEPT !.writer = r.index]
                           ELSE hist[c]]
  /\ UNCHANGED <<enabled, known, started, nreads>>

\* DepGraph::read, called by the body that is running (or at top level) with
\* an index it was handed, or with the dummy index of a disabled graph
Read(v) ==
  /\ ~aborted
  /\ nreads < MaxReads
  /\ nreads' = nreads + 1
  /\ IF enabled
     THEN /\ task_stack' = nodes_read(task_stack, v)
          /\ aborted' = FALSE
     ELSE /\ task_stack' = task_stack
          /\ aborted' = (v # dummy)            \* debug_assert!(v.is_dummy())
  /\ calls' = LogRead(calls, v)
  /\ last' = [NoLast EXCEPT !.op = "read", !.arg = v]
  /\ UNCHANGED <<enabled, node_data, predecessors, anon_node_map,
                 named_node_map, cells, known, started, hist>>

\* self.graph.read(u) as Task calls it: DepGraph::read
graph_read(stack, v) == IF enabled THEN nodes_read(stack, v) ELSE stack

\* debug_assert!(v.is_dummy()) of DepGraph::read on a disabled graph
read_asserts(v) == ~enabled /\ v # dummy

\* Task::cell: a new cell, write-locked by this task from birth, no read
Cell ==
  /\ ~aborted
  /\ ActingTask # 0
  /\ Len(cells) < MaxCells
  /\ LET t == ActingTask
     IN /\ Len(calls[t].locked) < MaxLocked
        /\ cells' = Append(cells, WriteLocked(calls[t].task_id))
        /\ calls' = [calls EXCEPT ![t].locked = Append(@, Len(cells) + 1)]
        /\ hist' = Append(hist, [creator |-> calls[t].inv,
                                 holder  |-> calls[t].inv,
                                 writer  |-> NoIndex])
        /\ last' = [NoLast EXCEPT !.op = "cell", !.arg = Len(cells) + 1,
                                  !.inv = calls[t].inv]
  /\ UNCHANGED <<enabled, graphVars, known, started, nreads, aborted>>

\* what a successful borrow or borrow_mut does after its check:
\* state.replace(new), read(u) if the cell was Unlocked(u), locked.push(cell)
Acquire(t, c, new, op) ==
  LET st == cells[c]
      u  == st.val
      cs == [calls EXCEPT ![t].locked = Append(@, c),
                          ![t].need = IF hist[c].creator # calls[t].inv
                                         /\ t = Len(calls)
                                      THEN @ \cup {hist[c].writer}
                                      ELSE @]
  IN /\ cells' = [cells EXCEPT ![c] = new]
     /\ hist' = [hist EXCEPT ![c].holder = calls[t].inv]
     /\ IF st.tag = "Unlocked"
        THEN /\ task_stack' = graph_read(task_stack, u)
             /\ calls' = LogRead(cs, u)
             /\ aborted' = read_asserts(u)
        ELSE /\ task_stack' = task_stack
             /\ calls' = cs
             /\ aborted' = FALSE
     /\ last' = [NoLast EXCEPT !.op = op, !.arg = c, !.inv = calls[t].inv,
                               !.pre = st, !.preholder = hist[c].holder]

\* the panic of borrow or borrow_mut: nothing was changed yet
Conflict(t, c, op) ==
  /\ aborted' = TRUE
  /\ last' = [NoLast EXCEPT !.op = op, !.arg = c, !.inv = calls[t].inv,
                            !.pre = cells[c], !.preholder = hist[c].holder]
  /\ UNCHANGED <<task_stack, cells, calls, hist>>

\* Task::borrow_mut
BorrowMut(c) ==
  /\ ~aborted
  /\ ActingTask # 0
  /\ LET t == ActingTask
     IN /\ Len(calls[t].locked) < MaxLocked
        /\ IF borrow_mut_conflict(cells[c])
           THEN Conflict(t, c, "borrow_mut")
           ELSE Acquire(t, c, WriteLocked(calls[t].task_id), "borrow_mut")
  /\ UNCHANGED <<enabled, node_data, predecessors, anon_node_map,
                 named_node_map, known, started, nreads>>

\* Task::borrow
Borrow(c) ==
  /\ ~aborted
  /\ ActingTask # 0
  /\ LET t == ActingTask
     IN /\ Len(calls[t].locked) < MaxLocked
        /\ IF borrow_conflict(cells[c], calls[t].task_id)
           THEN Conflict(t, c, "borrow")
           ELSE Acquire(t, c, ReadLocked(calls[t].task_id), "borrow")
  /\ UNCHANGED <<enabled, node_data, predecessors, anon_node_map,
                 named_node_map, known, started, nreads>>

\* ---- the specification ----------------------------------------------------

\* DepGraph::new(enabled) and DepGraphNodes::new
Init ==
  /\ enabled \in BOOLEAN
  /\ node_data = <<>>
  /\ predecessors = {}
  /\ task_stack = <<>>
  /\ anon_node_map = EmptyMap
  /\ named_node_map = EmptyMap
  /\ cells = <<>>
  /\ calls = <<>>
  /\ known = {}
  /\ started = 0
  /\ nreads = 0
  /\ aborted = FALSE
  /\ hist = <<>>
  /\ last = NoLast

Next ==
  \/ \E key \in Names : BeginTask(key)
  \/ BeginAnonTask
  \/ BeginIgnore
  \/ BeginCellTask
  \/ EndTask
  \/ EndAnonTask
  \/ EndIgnore
  \/ EndCellTask
  \/ \E v \in known \cup {dummy} : Read(v)
  \/ Cell
  \/ \E c \in 1..Len(cells) : BorrowMut(c)
  \/ \E c \in 1..Len(cells) : Borrow(c)

\* every operation of the crate
Spec == Init /\ [][Next]_vars

\* the callers that use the graph engine of graph.rs alone
NextGraph ==
  \/ \E key \in Names : BeginTask(key)
  \/ BeginAnonTask
  \/ BeginIgnore
  \/ EndTask
  \/ EndAnonTask
  \/ EndIgnore
  \/ \E v \in known \cup {dummy} : Read(v)

SpecGraph == Init /\ [][NextGraph]_vars

\* the callers that use the cell tasks of cell.rs, with with_ignore as the
\* one scope whose closure can carry the Task along
NextCells ==
  \/ BeginCellTask
  \/ BeginIgnore
  \/ EndCellTask
  \/ EndIgnore
  \/ Cell
  \/ \E c \in 1..Len(cells) : BorrowMut(c)
  \/ \E c \in 1..Len(cells) : Borrow(c)

SpecCells == Init /\ [][NextCells]_vars

\* the callers that start and end scopes of all four kinds and read in them
NextScopes ==
  \/ \E key \in Names : BeginTask(key)
  \/ BeginAnonTask
  \/ BeginIgnore
  \/ BeginCellTask
  \/ EndTask
  \/ EndAnonTask
  \/ EndIgnore
  \/ EndCellTask
  \/ \E v \in known \cup {dummy} : Read(v)

SpecScopes == Init /\ [][NextScopes]_vars

\* DepGraph::new(false): every operation, on a graph that is disabled
InitDisabled == Init /\ ~enabled

SpecDisabled == InitDisabled /\ [][Next]_vars

\* ---- helpers of the statements -------------------------------------------

\* the predecessor list stored for index n
PredsOf(n) == node_data[n + 1].predecessors

\* the position in calls of invocation k (0 when it is not running)
CallOf(k) ==
  LET cand == {i \in 1..Len(calls) : calls[i].inv = k}
  IN IF cand = {} THEN 0 ELSE CHOOSE i \in cand : TRUE

\* a sequence without its repetitions, in the order of first occurrence
RECURSIVE FirstOccurrences(_)
FirstOccurrences(s) ==
  IF s = <<>>
  THEN <<>>
  ELSE LET r == FirstOccurrences(SubSeq(s, 1, Len(s) - 1))
           x == s[Len(s)]
       IN IF x \in Range(r) THEN r ELSE Append(r, x)

EndOps == {"end_task", "end_anon", "end_ignore", "end_cell"}

\* ---- C1 -------------------------------------------------------------------
\* C1: on an enabled graph a with_anon_task whose frame accumulated the same
\* ordered predecessor sequence as an earlier with_anon_task returns the
\* index the earlier one returned.
C1_AnonIdempotence ==
  (enabled /\ last.op = "end_anon" /\ ~aborted) =>
    \A k \in known : PredsOf(k) = PredsOf(last.node) => k = last.node

\* ---- C2 -------------------------------------------------------------------
\* C2: when a cell task on an enabled graph ends, the node it produced has
\* among its predecessors the node of the last writer of every cell the task
\* did not create and got a view of through borrow or borrow_mut.
C2_NoMissedEdge ==
  (enabled /\ last.op = "end_cell" /\ ~aborted) =>
    last.need \subseteq Range(PredsOf(last.node))

\* ---- C3 -------------------------------------------------------------------
\* C3: when a cell task ends, every cell of its locked list, read-locked or
\* write-locked, is Unlocked(n) for the node n the task produced.
C3_ReleaseUnlocksAll ==
  (last.op = "end_cell" /\ ~aborted) =>
    \A i \in 1..Len(last.locked) : cells[last.locked[i]] = Unlocked(last.node)

\* ---- C4 -------------------------------------------------------------------
\* C4: borrow on a cell that is ReadLocked by another task invocation than
\* the calling one aborts with a lock conflict.
C4_DistinctHolders ==
  (last.op = "borrow" /\ last.pre.tag = "ReadLocked"
     /\ last.preholder # last.inv) => aborted

\* ---- C5 -------------------------------------------------------------------
\* cell c is in the locked list of a cell task that encloses invocation k
HeldByEnclosing(c, k) ==
  \E i \in 1..Len(calls) :
     /\ i < CallOf(k)
     /\ calls[i].kind = "cell"
     /\ c \in Range(calls[i].locked)

\* C5: a borrow by a nested task of a cell that enclosing, still running
\* tasks have read-locked succeeds, and the cell tasks run to completion.
C5_SharedReaders ==
  /\ (last.op = "borrow" /\ last.pre.tag = "ReadLocked"
        /\ HeldByEnclosing(last.arg, last.inv)) => ~aborted
  /\ last.op = "end_cell" => ~aborted

\* a nested task has borrowed a cell its enclosing task holds read-locked
C5_Witness ==
  /\ last.op = "borrow" /\ last.pre.tag = "ReadLocked"
  /\ HeldByEnclosing(last.arg, last.inv)
  /\ ~aborted
  /\ cells[last.arg].tag = "ReadLocked"

C7_BorrowMutTwice ==
  [][(/\ last.op = "borrow_mut" /\ ~aborted
      /\ last'.op = "borrow_mut"
      /\ last'.arg = last.arg
      /\ last'.inv = last.inv) => ~aborted']_vars

\* ---- C8 -------------------------------------------------------------------
\* C8: on an enabled graph a with_task whose name is already in the
\* named-node table aborts when it ends and adds no node; otherwise it
\* appends a new node with that name, whatever anonymous nodes exist; no two
\* nodes ever carry the same name.
C8_NamedUniqueness ==
  /\ [](\A i, j \in 1..Len(node_data) :
          (node_data[i].opt_name # None
             /\ node_data[i].opt_name = node_data[j].opt_name) => i = j)
  /\ [][(enabled /\ last'.op = "end_task") =>
          IF Top.key \in DOMAIN named_node_map
          THEN aborted' /\ node_data' = node_data
          ELSE /\ ~aborted'
               /\ last'.node = Len(node_data)
               /\ node_data' =
                    Append(node_data,
                           [opt_name |-> Top.key,
                            predecessors |->
                              task_stack[Len(task_stack)].predecessors])
               /\ named_node_map'[Top.key] = Len(node_data)]_vars

\* a with_task has aborted on a name that a node already carries
C8_WitnessCollision ==
  /\ enabled /\ aborted /\ last.op = "end_task"
  /\ \E i \in 1..Len(node_data) : node_data[i].opt_name = last.arg

\* ---- C9 -------------------------------------------------------------------
\* C9: the accumulator of every frame lists the indices read while it was
\* innermost once each, in the order of their first read, its membership set
\* is the set of the list's elements, and the node created when the frame is
\* popped stores that list.
C9_ReadDedup ==
  /\ enabled =>
       \A i \in 1..Len(task_stack) :
          /\ task_stack[i].predecessors = FirstOccurrences(calls[i].reads)
          /\ task_stack[i].predecessor_set
               = Range(task_stack[i].predecessors)
  /\ (enabled /\ last.op \in EndOps /\ ~aborted) =>
       PredsOf(last.node) = FirstOccurrences(last.reads)

\* a frame was popped after a repeated read, with two predecessors that are
\* not in ascending order
C9_WitnessRepeatedRead ==
  /\ enabled /\ ~aborted /\ last.op \in EndOps
  /\ Len(PredsOf(last.node)) = 2
  /\ Len(last.reads) > 2
  /\ PredsOf(last.node)[1] > PredsOf(last.node)[2]

\* ---- C10 ------------------------------------------------------------------
\* C10: read leaves node storage, the interning tables, the cells and all
\* frames but the innermost unchanged, and with no active frame it leaves the
\* task stack unchanged too; the end of a task only removes its own frame, it
\* adds nothing to the enclosing frames.
C10_ReadInnermostOnly ==
  [][/\ last'.op = "read" =>
          /\ UNCHANGED <<enabled, node_data, predecessors, anon_node_map,
                         named_node_map, cells>>
          /\ Len(task_stack') = Len(task_stack)
          /\ \A i \in 1..(Len(task_stack) - 1) :
                task_stack'[i] = task_stack[i]
          /\ task_stack = <<>> => task_stack' = <<>>
     /\ (enabled /\ last'.op \in EndOps /\ ~aborted') =>
          task_stack' = Popped(task_stack)]_vars

\* a read inside a nested task: recorded in the inner frame, not in the
\* enclosing one
C10_WitnessNestedRead ==
  /\ enabled /\ ~aborted /\ last.op = "read"
  /\ Len(task_stack) >= 2
  /\ last.arg \in task_stack[Len(task_stack)].predecessor_set
  /\ last.arg \notin task_stack[1].predecessor_set

\* ---- C11 ------------------------------------------------------------------
\* C11: while a with_ignore scope is active on an enabled graph, no step
\* changes a frame below the frame with_ignore pushed, whatever op reads, and
\* the end of with_ignore removes that frame alone: the accumulator of the
\* enclosing task is after with_ignore what it was before.
C11_IgnoreSwallowsReads ==
  [][\A i \in 1..Len(calls) :
        (enabled /\ ~aborted /\ ~aborted' /\ calls[i].kind = "ignore") =>
          /\ Len(task_stack') >= i - 1
          /\ \A j \in 1..(i - 1) : task_stack'[j] = task_stack[j]]_vars

\* a read was made inside with_ignore inside a task, and with_ignore has
\* returned: the index read is not in the task's accumulator
C11_WitnessIgnoredRead ==
  /\ enabled /\ ~aborted /\ last.op = "end_ignore"
  /\ last.reads # <<>>
  /\ dummy \notin Range(last.reads)
  /\ Len(task_stack) = 1
  /\ calls[1].kind \in {"task", "anon", "cell"}
  /\ \A v \in Range(last.reads) : v \notin task_stack[1].predecessor_set

\* ---- C12 ------------------------------------------------------------------
\* C12: on a disabled graph node storage, the task stack, the interning set
\* and both node tables stay empty, every task ends without a panic and with
\* the dummy index, the caller of with_anon_task only ever gets the dummy
\* index, and every unlocked cell is stamped Unlocked(dummy).
C12_DisabledFastPath ==
  ~enabled =>
    /\ node_data = <<>>
    /\ task_stack = <<>>
    /\ predecessors = {}
    /\ anon_node_map = EmptyMap
    /\ named_node_map = EmptyMap
    /\ known \subseteq {dummy}
    /\ last.op \in {"end_task", "end_anon", "end_cell"} =>
         (~aborted /\ last.node = dummy)
    /\ last.op = "end_ignore" => ~aborted
    /\ \A c \in 1..Len(cells) :
          cells[c].tag = "Unlocked" => cells[c].val = dummy

\* a disabled graph after an anonymous task and a cell task that released a
\* cell it had write-locked
C12_WitnessDisabledRun ==
  /\ ~enabled /\ ~aborted
  /\ dummy \in known
  /\ last.op = "end_cell"
  /\ \E c \in 1..Len(cells) :
        c \in Range(last.locked) /\ cells[c] = Unlocked(dummy)

\* ---- C13 ------------------------------------------------------------------
\* C13: on an enabled graph a read of the dummy index aborts, and the dummy
\* index is in no frame's accumulator and in no node's predecessor list.
C13_DummyIndexMisuse ==
  enabled =>
    /\ (last.op = "read" /\ last.arg = dummy) => aborted
    /\ \A i \in 1..Len(task_stack) :
          dummy \notin Range(task_stack[i].predecessors)
    /\ \A i \in 1..Len(node_data) :
          dummy \notin Range(node_data[i].predecessors)

\* ---- C14 ------------------------------------------------------------------
\* the number of times x occurs in the sequence s
Occurrences(x, s) == Cardinality({k \in 1..Len(s) : s[k] = x})

\* C14: when a task on an enabled graph borrows a cell in its own frame and
\* then, as its next operation, borrows the same cell again, the second
\* borrow succeeds and records nothing, the cell is ReadLocked by the task,
\* and the node that last wrote the cell is exactly once in the task's
\* accumulator.
C14_BorrowTwice ==
  [][(/\ enabled
      /\ last.op = "borrow" /\ ~aborted
      /\ last'.op = "borrow"
      /\ last'.arg = last.arg
      /\ last'.inv = last.inv
      /\ ActingTask = Len(calls)) =>
       /\ ~aborted'
       /\ task_stack' = task_stack
       /\ cells'[last.arg] = ReadLocked(calls[ActingTask].task_id)
       /\ Occurrences(hist[last.arg].writer,
                      task_stack'[Len(task_stack')].predecessors) = 1]_vars

\* ---- C15 ------------------------------------------------------------------
\* C15: no step changes the name or the predecessor list stored for an
\* index that is allocated; node storage only grows, at its end.
C15_NodesImmutable ==
  [][/\ Len(node_data') >= Len(node_data)
     /\ \A i \in 1..Len(node_data) : node_data'[i] = node_data[i]]_vars

\* a node was appended to a storage that held a different node already
C15_WitnessAppend ==
  /\ enabled /\ ~aborted /\ last.op \in EndOps
  /\ Len(node_data) >= 2
  /\ last.node = Len(node_data) - 1
  /\ node_data[1] # node_data[Len(node_data)]

\* ---- C16 ------------------------------------------------------------------
\* C16: on an enabled graph, cell() records no predecessor; at the end of a
\* cell task every cell it had write-locked becomes Unlocked(n) for the index
\* n that pop_task returned for it, the index of the node just appended; an
\* Unlocked stamp stays as it is until the next acquire and is always the node
\* of the task that last write-locked the cell; borrow and borrow_mut of an
\* Unlocked(u) cell record u and nothing else in the innermost frame.
C16_WriteStamping ==
  /\ [](enabled =>
          \A c \in 1..Len(cells) :
             cells[c].tag = "Unlocked" =>
               /\ cells[c].val = hist[c].writer
               /\ cells[c].val \in 0..(Len(node_data) - 1))
  /\ [][enabled =>
          /\ last'.op = "cell" =>
               /\ task_stack' = task_stack
               /\ cells' = Append(cells, WriteLocked(calls[ActingTask].task_id))
          /\ (last'.op = "end_cell" /\ ~aborted') =>
               /\ last'.node = Len(node_data)
               /\ Len(node_data') = Len(node_data) + 1
               /\ \A c \in Range(Top.locked) :
                     cells[c].tag = "WriteLocked" =>
                       cells'[c] = Unlocked(last'.node)
          /\ \A c \in 1..Len(cells) :
                /\ (cells[c].tag = "Unlocked" /\ cells'[c].tag = "Unlocked")
                     => cells'[c] = cells[c]
                /\ (cells[c].tag = "Unlocked" /\ cells'[c].tag # "Unlocked")
                     => /\ last'.op \in {"borrow", "borrow_mut"}
                        /\ last'.arg = c
                        /\ task_stack'[Len(task_stack')].predecessor_set
                             = task_stack[Len(task_stack)].predecessor_set
                                 \cup {cells[c].val}]_vars

\* the chain: A created the cell (node 0, no predecessor), B wrote it through
\* borrow_mut (node 1, predecessor 0), C has read it through borrow and ended
\* (node 2, predecessor 1 and not 0)
C16_WitnessChain ==
  /\ enabled /\ ~aborted /\ last.op = "end_cell"
  /\ Len(node_data) = 3 /\ last.node = 2
  /\ PredsOf(0) = <<>> /\ PredsOf(1) = <<0>> /\ PredsOf(2) = <<1>>
  /\ last.locked = <<1>>
  /\ hist[1].writer = 1

\* ---- C17 ------------------------------------------------------------------
\* C17: every cell in the locked list of a running cell task is locked, under
\* that task's identity, so that release_locks reaches neither unreachable!()
\* nor a failing assert_eq!: the end of a cell task never panics.
C17_ReleaseInvariant ==
  /\ ~aborted =>
       \A i \in 1..Len(calls) :
          calls[i].kind = "cell" =>
            \A c \in Range(calls[i].locked) :
               /\ cells[c].tag \in {"ReadLocked", "WriteLocked"}
               /\ cells[c].val = calls[i].task_id
  /\ last.op = "end_cell" => ~aborted

\* a nested task has ended that had the same cell twice in its locked list,
\* a cell the enclosing task has in its list too
C17_WitnessRepeatedRelease ==
  /\ ~aborted /\ last.op = "end_cell"
  /\ Len(last.locked) = 2 /\ last.locked[1] = last.locked[2]
  /\ calls # <<>> /\ calls[1].kind = "cell"
  /\ last.locked[1] \in Range(calls[1].locked)

\* ---- C18 ------------------------------------------------------------------
\* C18: on an enabled graph the return of with_ignore allocates no node and
\* leaves the anonymous- and named-node tables as they are: the frame it
\* pushed is discarded.
C18_IgnoreFrameDiscarded ==
  [][(enabled /\ last'.op = "end_ignore") =>
       /\ node_data' = node_data
       /\ anon_node_map' = anon_node_map
       /\ named_node_map' = named_node_map]_vars

\* ---- C19 ------------------------------------------------------------------
\* C19: on an enabled graph every index the graph has handed out, every
\* index in a frame and every predecessor of a node names an existing node,
\* and a predecessor of the node with index i is smaller than i; the one
\* exception is the dummy index, which no operation of this graph returns.
C19_Acyclic ==
  enabled =>
    /\ known \subseteq 0..(Len(node_data) - 1)
    /\ \A j \in 1..Len(task_stack) :
          \A p \in Range(task_stack[j].predecessors) :
             p # dummy => (0 <= p /\ p < Len(node_data))
    /\ \A i \in 1..Len(node_data) :
          \A p \in Range(node_data[i].predecessors) :
             p # dummy => (0 <= p /\ p < i - 1)

\* a task has ended whose node has the node created just before it as its
\* only predecessor
C19_WitnessEdge ==
  /\ enabled /\ ~aborted /\ last.op \in EndOps
  /\ last.node >= 1
  /\ PredsOf(last.node) = <<last.node - 1>>

\* ---- C20 ------------------------------------------------------------------
BeginOps == {"begin_task", "begin_anon", "begin_ignore", "begin_cell"}

\* C20: as long as nothing has panicked, an enabled graph has one frame per
\* running with_task, with_anon_task, with_ignore or cell_task and a disabled
\* graph has none, so that the stack is empty when nothing runs and as deep
\* after a call as before it; the start of a scope pushes one empty frame,
\* its end finds a frame and pops exactly the top one, which holds what was
\* read in that scope.
C20_StackDiscipline ==
  /\ [](~aborted =>
          Len(task_stack) = (IF enabled THEN Len(calls) ELSE 0))
  /\ [][(enabled /\ ~aborted') =>
          /\ last'.op \in BeginOps =>
               /\ task_stack' = Append(task_stack,
                                       [predecessors |-> <<>>,
                                        predecessor_set |-> {}])
               /\ Len(calls') = Len(calls) + 1
          /\ last'.op \in EndOps =>
               /\ task_stack # <<>>
               /\ task_stack' = Popped(task_stack)
               /\ Len(calls') = Len(calls) - 1
               /\ task_stack[Len(task_stack)].predecessors
                    = FirstOccurrences(Top.reads)
          /\ last'.op \notin (BeginOps \cup EndOps) =>
               Len(task_stack') = Len(task_stack)]_vars

\* a nested scope has returned into a task that is still running and had
\* read before it started the nested scope
C20_WitnessNestedReturn ==
  /\ enabled /\ ~aborted /\ last.op \in EndOps
  /\ Len(calls) = 1 /\ Len(task_stack) = 1
  /\ task_stack[1].predecessors # <<>>
  /\ last.reads # <<>>

====
